---- MODULE Spec2Model ----
(***************************************************************************)
(* A model of the DartsAtlas daily results scraper                         *)
(* (src/dartsatlas_daily_results.py).                                      *)
(*                                                                         *)
(* The module holds six state machines over one set of variables:          *)
(*   SpecBracket  parse_bracket applied to a results document              *)
(*   SpecFetch    get_soup / fetch_raw, one step per session.get call      *)
(*   SpecCrawl    extract_event_links_for_season, two steps per page       *)
(*   SpecCollect  collect_for_region, one step per discovered link         *)
(*   SpecMain     main's loop over the regions, one step per tournament     *)
(*   SpecDate     parse_tournament_date applied to a tournament page        *)
(* Each specification leaves the variables of the other machines at their  *)
(* idle values.                                                            *)
(***************************************************************************)
EXTENDS Integers, Sequences, FiniteSets, TLC

VARIABLES
    doc,        \* parse_bracket: the normalised text of the results page
    bres,       \* parse_bracket: what the call produced (NoResult before it ran)
    force,      \* DA_FORCE_MIRROR
    fcall,      \* the fetch function that is running: "get_soup" or "fetch_raw"
    fpc,        \* where that call stands: "idle", "origin", "mirror", "done"
    fi,         \* the index i of its origin loop
    freqs,      \* the requests the call has sent so far, with their outcomes
    fres,       \* what the call produced: "none", "doc" or "raise"
    page,       \* extract_event_links_for_season: page
    out,        \* extract_event_links_for_season: out
    seen,       \* extract_event_links_for_season: seen
    before,     \* extract_event_links_for_season: before
    content,    \* extract_event_links_for_season: raw / soup of the page in hand
    cpc,        \* extract_event_links_for_season: "loop" (about to fetch), "tally"
                \* (page scanned, at the exit tests), "done" (returned out) or
                \* "raised" (left by an exception)
    pagelog,    \* history: one entry per page fetch of the crawl
    links,      \* collect_for_region: links
    idx,        \* collect_for_region: position of the for loop in links
    count,      \* collect_for_region: count
    rows,       \* collect_for_region: rows
    max_events, \* DA_MAX_EVENTS
    colpc,      \* collect_for_region: "loop" or "done" (returned rows)
    last,       \* history: what the last loop iteration of collect_for_region read and did
    run,        \* main: the loop over the regions and the count of the call in hand
    soup,       \* parse_tournament_date: the page it is given
    event_date  \* parse_tournament_date: what the call produced

bracketVars == <<doc, bres>>

fetchVars == <<force, fcall, fpc, fi, freqs, fres>>

crawlVars == <<page, out, seen, before, content, cpc, pagelog>>

collectVars == <<links, idx, count, rows, max_events, colpc, last>>

vars == <<doc, bres, force, fcall, fpc, fi, freqs, fres,
          page, out, seen, before, content, cpc, pagelog,
          links, idx, count, rows, max_events, colpc, last,
          run, soup, event_date>>

----------------------------------------------------------------------------
(* Bounds of the model                                                     *)

MaxDocLen == 4      \* items (headings, scored rows) in one results document
MaxScore == 1       \* highest leg score appearing in a scored row
MaxItems == 3       \* links in the markup of one season listing page
RichPages == 2      \* listing pages that carry arbitrary links; later pages list one tournament
MaxLinks == 2       \* tournament links handed to collect_for_region
MaxRoster == 17     \* distinct player links on a groups or players page
MaxCap == 1         \* largest DA_MAX_EVENTS setting tried
MaxRegions == 3     \* regions of one run
MaxParts == 3       \* non-empty spans inside the calendar icon of a page
MaxPhrases == 2     \* date-like phrases in the text of a page

----------------------------------------------------------------------------
(* Results documents.                                                      *)
(* norm (the whitespace-collapsed page text) is a sequence of items: a     *)
(* round heading, or one scored row "Name Avg s1 s2 Name Avg" (avg layout) *)
(* or "Name s1-s2 Name" (dash layout).  A page uses one layout.  The       *)
(* players of the row at position i are 2i-1 (left) and 2i (right), so     *)
(* every name of a document is distinct.                                   *)

FinalTerms == <<"Final">>
SemiTerms == <<"Semi-Final", "Semifinal", "Semi final">>
QuarterTerms == <<"Quarter-Final", "Quarterfinal", "Quarter final">>

Range(s) == {s[i] : i \in DOMAIN s}

\* the heading spellings that occur in the documents of the model
DocHeadings == {"Final", "Semi-Final", "Semi final", "Quarter-Final"}

Layouts == {"avg", "dash"}

Heading(t) == [kind |-> "head", term |-> t, s1 |-> 0, s2 |-> 0]

Row(x, y) == [kind |-> "pair", term |-> "", s1 |-> x, s2 |-> y]

Shapes == {Heading(t) : t \in DocHeadings} \cup {Row(x, y) : x \in 0..MaxScore, y \in 0..MaxScore}

ShapeSeqs == UNION {[1..n -> Shapes] : n \in 0..MaxDocLen}

LeftPlayer(i) == 2 * i - 1

RightPlayer(i) == 2 * i

Items(shapes) ==
    [i \in DOMAIN shapes |->
        [kind |-> shapes[i].kind, term |-> shapes[i].term,
         s1 |-> shapes[i].s1, s2 |-> shapes[i].s2,
         left |-> IF shapes[i].kind = "pair" THEN LeftPlayer(i) ELSE 0,
         right |-> IF shapes[i].kind = "pair" THEN RightPlayer(i) ELSE 0]]

\* the documents of one layout
Docs(l) == {[layout |-> l, norm |-> Items(s)] : s \in ShapeSeqs}

----------------------------------------------------------------------------
(* clean_person_name, on a captured name group: the heading words that     *)
(* the lazy group swallowed in front of the player's name, then the name.  *)
(* The first substitution removes a stage label only together with the     *)
(* whitespace on both sides of it, so after a removed label the next label *)
(* has no whitespace left in front of it and stays; of a two-word label    *)
(* ("Semi final") that could not be removed whole, the second word alone   *)
(* is still removed as "Final".                                            *)

TwoWordTerms == {"Semi final", "Quarter final"}

FirstWord(t) == IF t = "Semi final" THEN "Semi" ELSE "Quarter"

RECURSIVE strip_labels(_, _, _)
strip_labels(labels, i, free) ==
    IF i > Len(labels) THEN <<>>
    ELSE IF free THEN strip_labels(labels, i + 1, FALSE)
    ELSE IF labels[i] \in TwoWordTerms
         THEN <<FirstWord(labels[i])>> \o strip_labels(labels, i + 1, FALSE)
         ELSE <<labels[i]>> \o strip_labels(labels, i + 1, TRUE)

clean_person_name(s) ==
    [labels |-> strip_labels(s.labels, 1, TRUE), player |-> s.player]

----------------------------------------------------------------------------
(* parse_bracket                                                           *)

\* re.search(rf"{re.escape(t)}\b", norm, IGNORECASE): the pattern has no
\* left anchor, so "Final" is also found at the end of every Semi/Quarter
\* heading; any other term is found only in the heading that spells it.
TermIn(t, heading) == IF t = "Final" THEN TRUE ELSE t = heading

FirstMatch(t, norm) ==
    LET hits == {i \in DOMAIN norm : norm[i].kind = "head" /\ TermIn(t, norm[i].term)}
    IN  IF hits = {} THEN 0 ELSE CHOOSE i \in hits : \A j \in hits : i <= j

\* norm[m.start():] - the window opens at the matched term itself, so a
\* heading matched in its tail contributes only that tail
From(norm, i, t) ==
    <<[norm[i] EXCEPT !.term = t]>> \o SubSeq(norm, i + 1, Len(norm))

RECURSIVE section_block_from(_, _, _)
section_block_from(terms, k, norm) ==
    IF k > Len(terms) THEN norm
    ELSE LET i == FirstMatch(terms[k], norm)
         IN  IF i > 0 THEN From(norm, i, terms[k])
             ELSE section_block_from(terms, k + 1, norm)

section_block(terms, norm) == section_block_from(terms, 1, norm)

\* pat.findall(blk): the scored rows of the window in text order; the lazy
\* left group of a match starts where the previous match ended
RECURSIVE findall_from(_, _, _)
findall_from(blk, i, pre) ==
    IF i > Len(blk) THEN <<>>
    ELSE IF blk[i].kind = "head" THEN findall_from(blk, i + 1, Append(pre, blk[i].term))
    ELSE <<[left |-> [labels |-> pre, player |-> blk[i].left],
            s1 |-> blk[i].s1, s2 |-> blk[i].s2,
            right |-> [labels |-> <<>>, player |-> blk[i].right]]>>
         \o findall_from(blk, i + 1, <<>>)

pair_pats == <<"avg", "dash">>

findall(pat, layout, blk) == IF pat = layout THEN findall_from(blk, 1, <<>>) ELSE <<>>

Take(s, n) == SubSeq(s, 1, IF Len(s) < n THEN Len(s) ELSE n)

CleanPair(m) ==
    [a |-> clean_person_name(m.left), b |-> clean_person_name(m.right),
     x |-> m.s1, y |-> m.s2]

RECURSIVE extract_pairs_from(_, _, _, _)
extract_pairs_from(k, blk, layout, expected) ==
    IF k > Len(pair_pats) THEN <<>>
    ELSE LET pairs == findall(pair_pats[k], layout, blk)
             used == Take(pairs, expected)
             outp == [j \in DOMAIN used |-> CleanPair(used[j])]
         IN  IF outp # <<>> THEN outp
             ELSE extract_pairs_from(k + 1, blk, layout, expected)

extract_pairs(terms, expected, d) ==
    extract_pairs_from(1, section_block(terms, d.norm), d.layout, expected)

FinalWinner(p) == IF p.x > p.y THEN p.a ELSE p.b

FinalRunnerUp(p) == IF p.x > p.y THEN p.b ELSE p.a

\* a variant that keeps the advancing side of a Semi/Quarter row
RoundEntry_Advancing(p) == IF p.x > p.y THEN p.a ELSE p.b

RoundEntry(p) == IF p.x < p.y THEN p.a ELSE p.b

NoName == [labels |-> <<>>, player |-> 0]

NoResult == [status |-> "none", final_pairs |-> <<>>, semi_pairs |-> <<>>,
             quarter_pairs |-> <<>>, winner |-> NoName, runner_up |-> NoName,
             semi_finalists |-> <<>>, quarter_finalists |-> <<>>]

parse_bracket(d) ==
    LET final_pairs == extract_pairs(FinalTerms, 1, d)
        semi_pairs == extract_pairs(SemiTerms, 2, d)
        quarter_pairs == extract_pairs(QuarterTerms, 4, d)
    IN  IF final_pairs = <<>>
        THEN [NoResult EXCEPT !.status = "raise", !.semi_pairs = semi_pairs,
                              !.quarter_pairs = quarter_pairs]
        ELSE [status |-> "ok", final_pairs |-> final_pairs, semi_pairs |-> semi_pairs,
              quarter_pairs |-> quarter_pairs,
              winner |-> FinalWinner(final_pairs[1]),
              runner_up |-> FinalRunnerUp(final_pairs[1]),
              semi_finalists |-> [j \in DOMAIN semi_pairs |-> RoundEntry(semi_pairs[j])],
              quarter_finalists |-> [j \in DOMAIN quarter_pairs |-> RoundEntry(quarter_pairs[j])]]

----------------------------------------------------------------------------
(* get_soup and fetch_raw: one step per session.get call.  A session.get   *)
(* call includes the transport-level retries of the mounted adapter.       *)

\* what one session.get can end in: a usable response; status 403/429/503;
\* another status that raise_for_status rejects; a transport-level error
Outcomes == {"ok", "blocked", "http_error", "transport_error"}

Failures == Outcomes \ {"ok"}

Request(target, outcome) == [to |-> target, outcome |-> outcome]

\* a variant of the origin loop that runs one more attempt
AfterOriginFailure_ThreeAttempts(i) == IF i + 1 < 3 THEN "origin" ELSE "mirror"

\* for i in range(2): after the failure of attempt i the loop goes on to
\* attempt i + 1, and past the last attempt the mirror is asked
AfterOriginFailure(i) == IF i + 1 < 2 THEN "origin" ELSE "mirror"

\* get_soup skips the origin loop when DA_FORCE_MIRROR is set
GetSoupEntry(f) == IF f THEN "mirror" ELSE "origin"

\* fetch_raw has no test of DA_FORCE_MIRROR: it always starts at the origin
FetchRawEntry(f) == "origin"

StartCall(fn, entry) ==
    /\ fcall' = fn
    /\ fpc' = entry
    /\ fi' = 0
    /\ freqs' = <<>>
    /\ fres' = "none"
    /\ UNCHANGED force

\* the origin answered and its status was accepted: return the document
OriginSucceeds(fn) ==
    /\ fcall = fn
    /\ fpc = "origin"
    /\ freqs' = Append(freqs, Request("origin", "ok"))
    /\ fres' = "doc"
    /\ fpc' = "done"
    /\ UNCHANGED <<force, fcall, fi>>

\* the attempt raised a RequestException (403/429/503, raise_for_status, or
\* a transport error), which the loop catches: sleep, then the next i
OriginFails(fn) ==
    /\ fcall = fn
    /\ fpc = "origin"
    /\ \E o \in Failures : freqs' = Append(freqs, Request("origin", o))
    /\ fi' = fi + 1
    /\ fpc' = AfterOriginFailure(fi)
    /\ UNCHANGED <<force, fcall, fres>>

\* the mirror answered and raise_for_status passed: return the document
MirrorSucceeds(fn) ==
    /\ fcall = fn
    /\ fpc = "mirror"
    /\ freqs' = Append(freqs, Request("mirror", "ok"))
    /\ fres' = "doc"
    /\ fpc' = "done"
    /\ UNCHANGED <<force, fcall, fi>>

\* the mirror request raised; nothing in the fetch function catches it
MirrorFails(fn) ==
    /\ fcall = fn
    /\ fpc = "mirror"
    /\ \E o \in Failures : freqs' = Append(freqs, Request("mirror", o))
    /\ fres' = "raise"
    /\ fpc' = "done"
    /\ UNCHANGED <<force, fcall, fi>>

\* what a whole call to either function can hand to its caller
FetchResults == {"doc", "raise"}

----------------------------------------------------------------------------
(* URLs.  A URL is its scheme ("rel" for a relative reference), whether    *)
(* its host is www.dartsatlas.com (an absolute URL of another host has     *)
(* www = FALSE), the path segment after /tournaments/ (id = "" when the    *)
(* path has no /tournaments/ segment) and whatever follows that segment.   *)

Url(scheme, www, id, tail) == [scheme |-> scheme, www |-> www, id |-> id, tail |-> tail]

Rel(id) == Url("rel", FALSE, id, "")

NoUrl == Url("", FALSE, "", "")

HasTournaments(u) == u.id # ""

\* urljoin raises ValueError ("Invalid IPv6 URL") on a reference whose host
\* part holds an unmatched square bracket, e.g. "http://[/tournaments/X9"
urljoin_raises(href) == href.scheme = "malformed"

\* urljoin("https://www.dartsatlas.com", href), where it returns
urljoin(href) ==
    IF href.scheme = "rel" THEN Url("https", TRUE, href.id, href.tail) ELSE href

\* canonical_tournament_url: the regex keeps the scheme of an absolute www
\* URL and cuts at the first of / ? #; the fallback rebuilds the URL from
\* the text after /tournaments/ up to the next "/" only
canonical_tournament_url(u) ==
    IF u.scheme \in {"http", "https"} /\ u.www /\ HasTournaments(u)
    THEN Url(u.scheme, TRUE, u.id, "")
    ELSE IF HasTournaments(u)
    THEN Url("https", TRUE, u.id, IF u.tail = "/results" THEN "" ELSE u.tail)
    ELSE u

----------------------------------------------------------------------------
(* Season listing pages.  The markup of a page is a sequence of items in   *)
(* document order: an anchor (with the "Full Details" label or another     *)
(* text), an absolute URL in text outside any href, or the href attribute  *)
(* of an element that is not an anchor.                                    *)

Anchor(details, href) == [tag |-> "a", details |-> details, href |-> href]

TextUrl(u) == [tag |-> "text", details |-> FALSE, href |-> u]

OtherHref(href) == [tag |-> "attr", details |-> FALSE, href |-> href]

\* the hrefs of the listing's anchors: two tournaments by relative link, the
\* first one also by the absolute URL of its results page
AnchorHrefs == {Rel("A1"), Rel("B2"), Url("https", TRUE, "A1", "/results")}

\* a link that leads to no tournament
Elsewhere == Url("rel", FALSE, "", "")

TextUrls == {Url("https", TRUE, "C3", "")}

\* the first tournament once more, by an absolute link of scheme http
PlainHttp == Url("http", TRUE, "A1", "")

OtherHrefs == {PlainHttp}

\* an href with /tournaments/ in it that urljoin cannot split
Malformed == Url("malformed", FALSE, "X9", "")

PageItems ==
    {Anchor(d, h) : d \in BOOLEAN, h \in AnchorHrefs}
        \cup {Anchor(TRUE, Elsewhere), Anchor(FALSE, Malformed)}
        \cup {TextUrl(u) : u \in TextUrls}
        \cup {OtherHref(h) : h \in OtherHrefs}

RichContents == UNION {[1..n -> PageItems] : n \in 0..MaxItems}

PageTournaments == <<"P01", "P02", "P03", "P04", "P05", "P06", "P07", "P08", "P09", "P10">>

TournamentOfPage(p) == PageTournaments[p]

OwnListing(p) == <<Anchor(TRUE, Rel(TournamentOfPage(p)))>>

\* what the site may serve as page p: on the first pages any markup; on any
\* page nothing, the one tournament of that page, or the listing of the
\* page before it once more
PageContents(p) ==
    (IF p <= RichPages THEN RichContents ELSE {})
        \cup {<<>>, OwnListing(p)}
        \cup (IF p > 1 THEN {OwnListing(p - 1)} ELSE {})

----------------------------------------------------------------------------
(* extract_event_links_for_season                                          *)

Passes == 1..4

\* the URL that a pass finds in one item of the page, NoUrl if it finds none
Found(pass, it) ==
    LET full == canonical_tournament_url(urljoin(it.href))
    IN  CASE pass = 1 ->    \* anchors labelled "Full Details"
            IF it.tag = "a" /\ it.details /\ HasTournaments(full) THEN full ELSE NoUrl
        [] pass = 2 ->      \* any anchor whose href has /tournaments/
            IF it.tag = "a" /\ HasTournaments(it.href) /\ HasTournaments(full)
            THEN full ELSE NoUrl
        [] pass = 3 ->      \* absolute www URLs anywhere in the raw markup
            IF it.href.scheme \in {"http", "https"} /\ it.href.www /\ HasTournaments(it.href)
            THEN canonical_tournament_url(Url("https", TRUE, it.href.id, ""))
            ELSE NoUrl
        [] OTHER ->         \* href attributes that end with the tournament id
            IF it.tag \in {"a", "attr"} /\ HasTournaments(it.href) /\ it.href.tail = ""
            THEN full ELSE NoUrl

\* whether a pass hands the href of an item to urljoin: the first and second
\* scans do so for the anchors they select, the last scan for every href
\* attribute its regex matches; the third scan builds its URL by
\* concatenation
Joins(pass, it) ==
    CASE pass = 1 -> it.tag = "a" /\ it.details
      [] pass = 2 -> it.tag = "a" /\ HasTournaments(it.href)
      [] pass = 3 -> FALSE
      [] OTHER -> it.tag \in {"a", "attr"} /\ HasTournaments(it.href) /\ it.href.tail = ""

\* the first item at which the scan raises, 0 if it runs through
RaiseAt(pass, pg) ==
    LET bad == {i \in DOMAIN pg : Joins(pass, pg[i]) /\ urljoin_raises(pg[i].href)}
    IN  IF bad = {} THEN 0 ELSE CHOOSE i \in bad : \A j \in bad : i <= j

\* none of the four scans is inside a try block
ScanRaises(pg) == \E pass \in Passes : RaiseAt(pass, pg) > 0

\* a variant of the append step without the membership test
add_NoSeenTest(st, full) == [out |-> Append(st.out, full), seen |-> st.seen \cup {full}]

\* if full not in seen: seen.add(full); out.append(full)
add(st, full) ==
    IF full \in st.seen THEN st
    ELSE [out |-> Append(st.out, full), seen |-> st.seen \cup {full}]

RECURSIVE run_pass(_, _, _, _)
run_pass(pass, pg, i, st) ==
    IF i > Len(pg) THEN st
    ELSE LET full == Found(pass, pg[i])
         IN  run_pass(pass, pg, i + 1, IF full = NoUrl THEN st ELSE add(st, full))

RECURSIVE run_passes(_, _, _)
run_passes(pass, pg, st) ==
    IF pass \notin Passes THEN st
    ELSE IF RaiseAt(pass, pg) > 0
    THEN run_pass(pass, SubSeq(pg, 1, RaiseAt(pass, pg) - 1), 1, st)
    ELSE run_passes(pass + 1, pg, run_pass(pass, pg, 1, st))

\* a variant of the loop exit that goes on after a page without new URLs
StopAfter_IgnoresAdded(added, next_page) == IF next_page > 10 THEN "limit" ELSE "go on"

\* if added == 0: break; page += 1; if page > 10: break
StopAfter(added, next_page) ==
    IF added = 0 THEN "nothing new"
    ELSE IF next_page > 10 THEN "limit"
    ELSE "go on"

NoContent == <<>>

PageFetch(p, r, added) == [page |-> p, result |-> r, added |-> added]

\* the body of the while loop up to the exit tests, when fetch_raw raised:
\* warn, break, return out
CrawlStep_FetchFailed ==
    /\ cpc' = "done"
    /\ pagelog' = Append(pagelog, PageFetch(page, "raise", 0))
    /\ UNCHANGED <<page, out, seen, before, content>>

\* the body of the while loop up to the exit tests, when fetch_raw returned
\* pg: before = len(out), the four scans, added = len(out) - before
CrawlStep_Scan(pg) ==
    LET st == run_passes(1, pg, [out |-> out, seen |-> seen])
    IN  /\ content' = pg
        /\ before' = Len(out)
        /\ out' = st.out
        /\ seen' = st.seen
        /\ pagelog' = Append(pagelog, PageFetch(page, "doc", Len(st.out) - Len(out)))
        /\ cpc' = "tally"
        /\ UNCHANGED page

\* the body of the while loop when fetch_raw returned pg and one of the
\* scans raised on it: the exception leaves the function, and out is lost
\* with what the scans had appended so far
CrawlStep_ScanRaised(pg) ==
    LET st == run_passes(1, pg, [out |-> out, seen |-> seen])
    IN  /\ content' = pg
        /\ before' = Len(out)
        /\ out' = st.out
        /\ seen' = st.seen
        /\ pagelog' = Append(pagelog, PageFetch(page, "doc", Len(st.out) - Len(out)))
        /\ cpc' = "raised"
        /\ UNCHANGED page

\* the exit tests at the end of the loop body; raw and soup are not read
\* again after them
CrawlStep_Tally(verdict) ==
    /\ StopAfter(Len(out) - before, page + 1) = verdict
    /\ page' = IF verdict = "nothing new" THEN page ELSE page + 1
    /\ cpc' = IF verdict = "go on" THEN "loop" ELSE "done"
    /\ content' = NoContent
    /\ UNCHANGED <<out, seen, before, pagelog>>

----------------------------------------------------------------------------
(* Tier and points                                                         *)

\* a variant of the tier test with the Bronze limit off by one
determine_tier_Below8(entrants) ==
    IF entrants < 8 THEN "Bronze"
    ELSE IF entrants <= 16 THEN "Silver"
    ELSE "Gold"

determine_tier(entrants) ==
    IF entrants <= 8 THEN "Bronze"
    ELSE IF entrants <= 16 THEN "Silver"
    ELSE "Gold"

POINTS ==
    [Bronze |-> [W |-> 8, RU |-> 4, SF |-> 2, QF |-> 0],
     Silver |-> [W |-> 16, RU |-> 8, SF |-> 4, QF |-> 2],
     Gold |-> [W |-> 32, RU |-> 16, SF |-> 8, QF |-> 4]]

\* a variant of the estimate that looks at the semi-finalists first
estimate_entrants_from_bracket_SemisFirst(semis, quarters) ==
    IF semis # <<>> THEN 4
    ELSE IF quarters # <<>> THEN 8
    ELSE 2

\* a variant that takes recovered quarter-finalists for a field of 16
estimate_entrants_from_bracket_FieldOf16(semis, quarters) ==
    IF quarters # <<>> THEN 16
    ELSE IF semis # <<>> THEN 4
    ELSE 2

estimate_entrants_from_bracket(semis, quarters) ==
    IF quarters # <<>> THEN 8
    ELSE IF semis # <<>> THEN 4
    ELSE 2

----------------------------------------------------------------------------
(* What collect_for_region reads from the site for one tournament          *)

TargetDate == "2025-12-07"

Dates == {"2025-12-06", "2025-12-07"}

\* get_soup + parse_tournament_date on one page: an exception, None, a date
PageDateOutcomes == {"raise", "none"} \cup Dates

\* the results page is read for the date only when the home page gave none
DateReadings ==
    {[home |-> h, results |-> r] :
        h \in PageDateOutcomes, r \in PageDateOutcomes \cup {"unread"}}

DateReadingPossible(dr) == (dr.home \in Dates) <=> (dr.results = "unread")

\* a variant in which an unresolved date becomes the target date
EventDate_DefaultsToTarget(dr) ==
    IF dr.home \in Dates THEN dr.home
    ELSE IF dr.results \in Dates THEN dr.results
    ELSE TargetDate

\* event_date after the two try blocks; "none" stands for None
EventDate(dr) ==
    IF dr.home \in Dates THEN dr.home
    ELSE IF dr.results \in Dates THEN dr.results
    ELSE "none"

\* get_event_title never raises: it returns a title found on the home or
\* results page, or tour_root; here tournament A1 has a title on its pages
\* and the others have none
get_event_title(link) ==
    IF link.id = "A1" THEN [title |-> "Vault Open", url |-> NoUrl]
    ELSE [title |-> "", url |-> link]

\* count_player_links on one page: the number of distinct player hrefs, or
\* the exception of its get_soup call
Counted(n) == [state |-> "ok", n |-> n]

FailedPage == [state |-> "raise", n |-> 0]

UnreadPage == [state |-> "unread", n |-> 0]

RosterOutcomes == {Counted(n) : n \in 0..MaxRoster} \cup {FailedPage}

Positive(pg) == pg.state = "ok" /\ pg.n > 0

\* the players page is read only when the groups page gave no positive count
RosterReadings ==
    {[groups |-> g, players |-> UnreadPage] : g \in {o \in RosterOutcomes : Positive(o)}}
        \cup {[groups |-> g, players |-> p] :
                g \in {o \in RosterOutcomes : ~Positive(o)}, p \in RosterOutcomes}

\* a variant without the fallback to the players page
count_entrants_GroupsOnly(rr) ==
    IF Positive(rr.groups) THEN rr.groups.n ELSE 0

count_entrants(rr) ==
    IF Positive(rr.groups) THEN rr.groups.n
    ELSE IF Positive(rr.players) THEN rr.players.n
    ELSE 0

\* the results pages served to collect_for_region: "Final Ann Avg 1 0 Bob
\* Avg" alone; the same followed by empty Semi-Final and Quarter-Final
\* sections; a Semi-Final with one row and an empty Quarter-Final section;
\* Final, Semi-Final and Quarter-Final sections of one row each; headings
\* without any row
CollectDocs ==
    {[layout |-> "avg", norm |-> Items(s)] : s \in
        {<<Heading("Final"), Row(1, 0)>>,
         <<Heading("Final"), Row(1, 0), Heading("Semi-Final"), Heading("Quarter-Final")>>,
         <<Heading("Semi-Final"), Row(0, 1), Heading("Quarter-Final")>>,
         <<Heading("Final"), Row(0, 1), Heading("Semi-Final"), Row(1, 0),
           Heading("Quarter-Final"), Row(0, 1)>>,
         <<Heading("Semi-Final"), Heading("Quarter-Final")>>}}

\* get_soup of the results page inside parse_bracket raised
FetchFailed == [NoResult EXCEPT !.status = "raise"]

BracketReadings == {parse_bracket(d) : d \in CollectDocs} \cup {FetchFailed}

----------------------------------------------------------------------------
(* collect_for_region                                                      *)

\* the links that the season crawler can hand over: two tournaments, the
\* routing page /tournaments/schedule, and a link with a query left on it
CollectLinks ==
    {Url("https", TRUE, "A1", ""), Url("https", TRUE, "B2", ""),
     Url("https", TRUE, "schedule", ""), Url("https", TRUE, "A1", "?page=2")}

NoDup(s) == \A i, j \in DOMAIN s : s[i] = s[j] => i = j

LinkLists == {s \in UNION {[1..n -> CollectLinks] : n \in 0..MaxLinks} : NoDup(s)}

\* "/tournaments/schedule" in link or "/tournaments/results" in link
IsRoutingPage(u) == u.id \in {"schedule", "results"}

\* re.search(r"/tournaments/([A-Za-z0-9]+)$", url)
is_real_tournament_url(u) == HasTournaments(u) /\ u.tail = ""

\* DA_MAX_EVENTS and count >= DA_MAX_EVENTS
CapReached == max_events # 0 /\ count >= max_events

EventResult(link, name, date, entrants, br) ==
    LET tier == determine_tier(entrants)
        pts == POINTS[tier]
    IN  [region |-> "Scotland", event_name |-> name, event_url |-> link, date |-> date,
         entrants |-> entrants, tier |-> tier,
         winner |-> br.winner, runner_up |-> br.runner_up,
         semi_finalists |-> br.semi_finalists, quarter_finalists |-> br.quarter_finalists,
         points_winner |-> pts.W, points_runner_up |-> pts.RU,
         points_semis |-> pts.SF, points_quarters |-> pts.QF]

NoRoster == [groups |-> UnreadPage, players |-> UnreadPage]

\* no page of the tournament was fetched for its date
NoDates == [home |-> "unread", results |-> "unread"]

\* what one pass through the loop body did: the path it took, the link,
\* what the pages gave for the date and the roster, the roster count, and
\* whether time.sleep(DA_SLEEP) was reached
Iteration(path, link, dr, rr, n, slept) ==
    [path |-> path, link |-> link, dates |-> dr, roster |-> rr, counted |-> n,
     slept |-> slept]

NoIteration == Iteration("none", NoUrl, NoDates, NoRoster, 0, FALSE)

Link == links[idx]

InLoop == colpc = "loop" /\ idx <= Len(links)

\* a routing page: continue
Collect_SkipRouting ==
    /\ InLoop
    /\ IsRoutingPage(Link)
    /\ idx' = idx + 1
    /\ last' = Iteration("routing", Link, NoDates, NoRoster, 0, FALSE)
    /\ UNCHANGED <<links, count, rows, max_events, colpc>>

\* not a real tournament URL: continue
Collect_SkipNotReal ==
    /\ InLoop
    /\ ~IsRoutingPage(Link)
    /\ ~is_real_tournament_url(Link)
    /\ idx' = idx + 1
    /\ last' = Iteration("not real", Link, NoDates, NoRoster, 0, FALSE)
    /\ UNCHANGED <<links, count, rows, max_events, colpc>>

Processable == InLoop /\ ~IsRoutingPage(Link) /\ is_real_tournament_url(Link)

\* the cap is reached: break, return rows
Collect_CapBreak ==
    /\ Processable
    /\ CapReached
    /\ colpc' = "done"
    /\ last' = Iteration("cap", Link, NoDates, NoRoster, 0, FALSE)
    /\ UNCHANGED <<links, idx, count, rows, max_events>>

\* no date on the home page nor on the results page: continue
Collect_SkipNoDate ==
    /\ Processable
    /\ ~CapReached
    /\ \E dr \in DateReadings :
        /\ DateReadingPossible(dr)
        /\ EventDate(dr) = "none"
        /\ last' = Iteration("no date", Link, dr, NoRoster, 0, FALSE)
    /\ count' = count + 1
    /\ idx' = idx + 1
    /\ UNCHANGED <<links, rows, max_events, colpc>>

\* a date other than the target date: continue
Collect_SkipOtherDate ==
    /\ Processable
    /\ ~CapReached
    /\ \E dr \in DateReadings :
        /\ DateReadingPossible(dr)
        /\ EventDate(dr) \notin {"none", TargetDate}
        /\ last' = Iteration("other date", Link, dr, NoRoster, 0, FALSE)
    /\ count' = count + 1
    /\ idx' = idx + 1
    /\ UNCHANGED <<links, rows, max_events, colpc>>

\* a variant in which the failure of one tournament ends the loop
Collect_Failed_EndsLoop ==
    /\ Processable
    /\ ~CapReached
    /\ \E dr \in DateReadings :
        /\ DateReadingPossible(dr)
        /\ EventDate(dr) = TargetDate
        /\ last' = Iteration("failed", Link, dr, NoRoster, 0, TRUE)
    /\ \E br \in BracketReadings : br.status = "raise"
    /\ count' = count + 1
    /\ colpc' = "done"
    /\ UNCHANGED <<links, idx, rows, max_events>>

\* the date matches and parse_bracket raises (its get_soup failed, or no
\* Final was found): the except clause of the loop body logs it; sleep
Collect_Failed ==
    /\ Processable
    /\ ~CapReached
    /\ \E dr \in DateReadings :
        /\ DateReadingPossible(dr)
        /\ EventDate(dr) = TargetDate
        /\ last' = Iteration("failed", Link, dr, NoRoster, 0, TRUE)
    /\ \E br \in BracketReadings : br.status = "raise"
    /\ count' = count + 1
    /\ idx' = idx + 1
    /\ UNCHANGED <<links, rows, max_events, colpc>>

\* the date matches and the bracket is parsed: entrants, tier, points, and
\* the row is appended; sleep
Collect_StoreRow ==
    /\ Processable
    /\ ~CapReached
    /\ \E dr \in DateReadings, br \in BracketReadings, rr \in RosterReadings :
        /\ DateReadingPossible(dr)
        /\ EventDate(dr) = TargetDate
        /\ br.status = "ok"
        /\ LET n == count_entrants(rr)
               entrants == IF n = 0
                           THEN estimate_entrants_from_bracket(br.semi_finalists, br.quarter_finalists)
                           ELSE n
           IN  /\ rows' = Append(rows, EventResult(Link, get_event_title(Link), EventDate(dr), entrants, br))
               /\ last' = Iteration("row", Link, dr, rr, n, TRUE)
    /\ count' = count + 1
    /\ idx' = idx + 1
    /\ UNCHANGED <<links, max_events, colpc>>

\* the for loop is exhausted: return rows
Collect_Return ==
    /\ colpc = "loop"
    /\ idx > Len(links)
    /\ colpc' = "done"
    /\ UNCHANGED <<links, idx, count, rows, max_events, last>>

----------------------------------------------------------------------------
(* parse_tournament_date.  A page is the texts of the spans inside its     *)
(* calendar icon (parts, empty when the page has no icon) and the          *)
(* date-like phrases of its body, each phrase a sequence of words; the     *)
(* phrases are set apart from each other and from the icon by text that no *)
(* pattern runs across.                                                    *)

\* int(s) on the words of the model; -1 stands for ValueError
int(t) ==
    CASE t = "2025" -> 2025
      [] t = "06" -> 6
      [] t = "07" -> 7
      [] t = "12" -> 12
      [] t = "13" -> 13
      [] t = "31" -> 31
      [] t = "32" -> 32
      [] OTHER -> -1

\* month_map.get(m_str.strip(), None) of the icon branch, case-sensitive;
\* 0 stands for None
month_map(t) ==
    CASE t \in {"Feb", "February"} -> 2
      [] t \in {"Sep", "Sept", "September"} -> 9
      [] t \in {"Dec", "December"} -> 12
      [] OTHER -> 0

\* the month of the text branch: mon.title(), then long_to_short, then the
\* month_map built from months_short; 0 stands for None
text_month(mon) ==
    LET titled == CASE mon \in {"dec", "DEC"} -> "Dec"
                    [] OTHER -> mon
        short == CASE titled = "December" -> "Dec"
                   [] titled = "February" -> "Feb"
                   [] titled = "September" -> "Sep"
                   [] OTHER -> titled
    IN  CASE short = "Feb" -> 2
          [] short = "Sep" -> 9
          [] short = "Dec" -> 12
          [] OTHER -> 0

\* no date: None, and what a caught exception leaves
None == [y |-> 0, m |-> 0, d |-> 0]

\* a variant of dt.date that takes any day up to 31 in any month
date_AnyDayTo31(y, m, d) ==
    IF y \in 1..9999 /\ m \in 1..12 /\ d \in 1..31
    THEN [y |-> y, m |-> m, d |-> d]
    ELSE None

\* dt.date(y, m, d); its ValueError is caught by both callers, which then
\* go on as with None
date(y, m, d) ==
    LET leap == (y % 4 = 0 /\ y % 100 # 0) \/ y % 400 = 0
        days == CASE m = 2 -> IF leap THEN 29 ELSE 28
                  [] m \in {4, 6, 9, 11} -> 30
                  [] OTHER -> 31
    IN  IF y \in 1..9999 /\ m \in 1..12 /\ d \in 1..days
        THEN [y |-> y, m |-> m, d |-> d]
        ELSE None

try_build(y_str, m_str, d_str) ==
    IF int(y_str) = -1 \/ int(d_str) = -1 \/ month_map(m_str) = 0
    THEN None
    ELSE date(int(y_str), month_map(m_str), int(d_str))

\* a variant of the icon branch that reads [DD, Mon, YYYY] first
widget_DayFirst(parts) ==
    IF Len(parts) < 3 THEN None
    ELSE IF try_build(parts[3], parts[2], parts[1]) # None
         THEN try_build(parts[3], parts[2], parts[1])
    ELSE IF try_build(parts[1], parts[2], parts[3]) # None
         THEN try_build(parts[1], parts[2], parts[3])
    ELSE try_build(parts[3], parts[1], parts[2])

\* the icon branch: [YYYY, Mon, DD], then [DD, Mon, YYYY], then
\* [Mon, DD, YYYY], on the first three parts
widget(parts) ==
    IF Len(parts) < 3 THEN None
    ELSE IF try_build(parts[1], parts[2], parts[3]) # None
         THEN try_build(parts[1], parts[2], parts[3])
    ELSE IF try_build(parts[3], parts[2], parts[1]) # None
         THEN try_build(parts[3], parts[2], parts[1])
    ELSE try_build(parts[3], parts[1], parts[2])

\* one pass of the loop over patterns: re.search(pat, text) takes the
\* leftmost match of pattern k in the text; the groups of the match are
\* converted, and the date built from them is the outcome of the pass,
\* None when there is no match, the month is unknown or dt.date raises.
\* segs is the text as its pieces in document order.
pattern_date(k, segs) ==
    LET D == {"06", "07", "31", "32"}                   \* \d{1,2}
        W == {"Dec", "dec", "DEC", "Feb", "Sept", "December", "Sun", "Sat"}  \* [A-Za-z]+
        W3 == {"Dec", "dec", "DEC", "Feb", "Sun", "Sat"} \* \w{3}
        Y == {"2025"}                                   \* 20\d{2}
        Iso == {"2025-12-07", "2025/13/07"}
        At(sg, i, j, S) == i + j <= Len(sg) /\ sg[i + j] \in S
        Matches(sg, i) ==
            CASE k = 1 -> At(sg, i, 0, W3) /\ At(sg, i, 1, D) /\ At(sg, i, 2, W) /\ At(sg, i, 3, Y)
              [] k = 2 -> At(sg, i, 0, D) /\ At(sg, i, 1, W) /\ At(sg, i, 2, Y)
              [] k = 3 -> At(sg, i, 0, W) /\ At(sg, i, 1, D) /\ At(sg, i, 2, Y)
              [] OTHER -> At(sg, i, 0, Iso)
        Hits == {h \in (DOMAIN segs) \X (1..(MaxParts + 2)) : Matches(segs[h[1]], h[2])}
        m == CHOOSE h \in Hits : \A g \in Hits :
                h[1] < g[1] \/ (h[1] = g[1] /\ h[2] <= g[2])
        sg == segs[m[1]]
        i == m[2]
    IN  IF Hits = {} THEN None
        ELSE CASE k = 1 -> IF text_month(sg[i + 2]) = 0 THEN None
                           ELSE date(int(sg[i + 3]), text_month(sg[i + 2]), int(sg[i + 1]))
               [] k = 2 -> IF text_month(sg[i + 1]) = 0 THEN None
                           ELSE date(int(sg[i + 2]), text_month(sg[i + 1]), int(sg[i]))
               [] k = 3 -> IF text_month(sg[i]) = 0 THEN None
                           ELSE date(int(sg[i + 2]), text_month(sg[i]), int(sg[i + 1]))
               [] OTHER -> IF sg[i] = "2025-12-07" THEN date(int("2025"), int("12"), int("07"))
                           ELSE date(int("2025"), int("13"), int("07"))

\* for pat in patterns, from the k-th pattern on
RECURSIVE text_date(_, _)
text_date(k, segs) ==
    IF k > 4 THEN None
    ELSE IF pattern_date(k, segs) # None THEN pattern_date(k, segs)
    ELSE text_date(k + 1, segs)

\* soup.get_text lists the texts of the icon's spans along with the body
parse_tournament_date(s) ==
    IF widget(s.parts) # None THEN widget(s.parts)
    ELSE text_date(1, <<s.parts>> \o s.text)

----------------------------------------------------------------------------
(* Idle values of the machines                                             *)

NoDoc == [layout |-> "avg", norm |-> <<>>]

IdleBracket ==
    /\ doc = NoDoc
    /\ bres = NoResult

IdleFetch ==
    /\ force = FALSE
    /\ fcall = "none"
    /\ fpc = "idle"
    /\ fi = 0
    /\ freqs = <<>>
    /\ fres = "none"

IdleCrawl ==
    /\ page = 1
    /\ out = <<>>
    /\ seen = {}
    /\ before = 0
    /\ content = <<>>
    /\ cpc = "idle"
    /\ pagelog = <<>>

IdleCollect ==
    /\ links = <<>>
    /\ idx = 1
    /\ count = 0
    /\ rows = <<>>
    /\ max_events = 0
    /\ colpc = "idle"
    /\ last = NoIteration

\* main has not started: no region entered, nothing processed
NoRun ==
    [regions |-> 0, region |-> 0, max_events |-> 0, ahead |-> 0, count |-> 0,
     processed |-> 0, pc |-> "idle"]

IdleMain == run = NoRun

IdleDate ==
    /\ soup = [parts |-> <<>>, text |-> <<>>]
    /\ event_date = [status |-> "none", date |-> None]

----------------------------------------------------------------------------
(* SpecBracket: parse_bracket applied once to an arbitrary document        *)

\* every document of up to MaxDocLen items, and the page of a full bracket
\* that lists its rounds in playing order: Quarter-Final, Semi-Final, Final,
\* one scored row under each heading
InitBracket ==
    /\ \E l \in Layouts :
        doc \in Docs(l) \cup
            {[layout |-> l,
              norm |-> Items(<<Heading("Quarter-Final"), Row(1, 0), Heading("Semi-Final"),
                              Row(1, 0), Heading("Final"), Row(1, 0)>>)]}
    /\ bres = NoResult
    /\ IdleFetch
    /\ IdleCrawl
    /\ IdleCollect
    /\ IdleMain
    /\ IdleDate

ParseBracketReturn ==
    /\ bres.status = "none"
    /\ LET r == parse_bracket(doc)
       IN  r.status = "ok" /\ bres' = r
    /\ UNCHANGED <<doc, fetchVars, crawlVars, collectVars, run, soup, event_date>>

ParseBracketRaise ==
    /\ bres.status = "none"
    /\ LET r == parse_bracket(doc)
       IN  r.status = "raise" /\ bres' = r
    /\ UNCHANGED <<doc, fetchVars, crawlVars, collectVars, run, soup, event_date>>

NextBracket == ParseBracketReturn \/ ParseBracketRaise

SpecBracket == InitBracket /\ [][NextBracket]_vars

----------------------------------------------------------------------------
(* SpecFetch: a client that calls get_soup (as collect_for_region does for *)
(* tournament pages) and fetch_raw (as the season crawler does for listing *)
(* pages), one call after the other, under either setting of the flag.     *)

InitFetch ==
    /\ IdleBracket
    /\ force \in BOOLEAN
    /\ fcall = "none"
    /\ fpc = "idle"
    /\ fi = 0
    /\ freqs = <<>>
    /\ fres = "none"
    /\ IdleCrawl
    /\ IdleCollect
    /\ IdleMain
    /\ IdleDate

OtherThanFetch == <<bracketVars, crawlVars, collectVars, run, soup, event_date>>

CallGetSoup ==
    /\ fpc = "idle"
    /\ StartCall("get_soup", GetSoupEntry(force))
    /\ UNCHANGED OtherThanFetch

CallFetchRaw ==
    /\ fpc = "idle"
    /\ StartCall("fetch_raw", FetchRawEntry(force))
    /\ UNCHANGED OtherThanFetch

GetSoupOriginSucceeds == OriginSucceeds("get_soup") /\ UNCHANGED OtherThanFetch

GetSoupOriginFails == OriginFails("get_soup") /\ UNCHANGED OtherThanFetch

GetSoupMirrorSucceeds == MirrorSucceeds("get_soup") /\ UNCHANGED OtherThanFetch

GetSoupMirrorFails == MirrorFails("get_soup") /\ UNCHANGED OtherThanFetch

FetchRawOriginSucceeds == OriginSucceeds("fetch_raw") /\ UNCHANGED OtherThanFetch

FetchRawOriginFails == OriginFails("fetch_raw") /\ UNCHANGED OtherThanFetch

FetchRawMirrorSucceeds == MirrorSucceeds("fetch_raw") /\ UNCHANGED OtherThanFetch

FetchRawMirrorFails == MirrorFails("fetch_raw") /\ UNCHANGED OtherThanFetch

\* the caller takes the document or the exception
FetchReturns ==
    /\ fpc = "done"
    /\ fpc' = "idle"
    /\ UNCHANGED <<force, fcall, fi, freqs, fres, OtherThanFetch>>

NextFetch ==
    \/ CallGetSoup
    \/ CallFetchRaw
    \/ GetSoupOriginSucceeds
    \/ GetSoupOriginFails
    \/ GetSoupMirrorSucceeds
    \/ GetSoupMirrorFails
    \/ FetchRawOriginSucceeds
    \/ FetchRawOriginFails
    \/ FetchRawMirrorSucceeds
    \/ FetchRawMirrorFails
    \/ FetchReturns

SpecFetch == InitFetch /\ [][NextFetch]_vars

----------------------------------------------------------------------------
(* SpecCrawl: one call of extract_event_links_for_season against a site    *)
(* that serves its listing pages as it pleases                             *)

InitCrawl ==
    /\ IdleBracket
    /\ IdleFetch
    /\ page = 1
    /\ out = <<>>
    /\ seen = {}
    /\ before = 0
    /\ content = NoContent
    /\ cpc = "loop"
    /\ pagelog = <<>>
    /\ IdleCollect
    /\ IdleMain
    /\ IdleDate

OtherThanCrawl == <<bracketVars, fetchVars, collectVars, run, soup, event_date>>

\* fetch_raw raised for this page: warn, break, return out
Crawl_FetchFails ==
    /\ cpc = "loop"
    /\ CrawlStep_FetchFailed
    /\ UNCHANGED OtherThanCrawl

\* fetch_raw returned the page and the four scans ran over it
Crawl_ScanPage ==
    /\ cpc = "loop"
    /\ \E pg \in PageContents(page) : ~ScanRaises(pg) /\ CrawlStep_Scan(pg)
    /\ UNCHANGED OtherThanCrawl

\* fetch_raw returned the page and a scan raised on one of its hrefs
Crawl_ScanRaises ==
    /\ cpc = "loop"
    /\ \E pg \in PageContents(page) : ScanRaises(pg) /\ CrawlStep_ScanRaised(pg)
    /\ UNCHANGED OtherThanCrawl

\* the page added nothing: break, return out
Crawl_NothingNew ==
    /\ cpc = "tally"
    /\ CrawlStep_Tally("nothing new")
    /\ UNCHANGED OtherThanCrawl

\* the page added URLs: on to the next page
Crawl_NextPage ==
    /\ cpc = "tally"
    /\ CrawlStep_Tally("go on")
    /\ UNCHANGED OtherThanCrawl

\* the page added URLs and was the tenth: break, return out
Crawl_PageLimit ==
    /\ cpc = "tally"
    /\ CrawlStep_Tally("limit")
    /\ UNCHANGED OtherThanCrawl

NextCrawl ==
    \/ Crawl_FetchFails
    \/ Crawl_ScanPage
    \/ Crawl_ScanRaises
    \/ Crawl_NothingNew
    \/ Crawl_NextPage
    \/ Crawl_PageLimit

SpecCrawl == InitCrawl /\ [][NextCrawl]_vars

----------------------------------------------------------------------------
(* SpecCollect: one call of collect_for_region on the links of a season    *)

InitCollect ==
    /\ IdleBracket
    /\ IdleFetch
    /\ IdleCrawl
    /\ links \in LinkLists
    /\ idx = 1
    /\ count = 0
    /\ rows = <<>>
    /\ max_events \in 0..MaxCap
    /\ colpc = "loop"
    /\ last = NoIteration
    /\ IdleMain
    /\ IdleDate

OtherThanCollect == <<bracketVars, fetchVars, crawlVars, run, soup, event_date>>

NextCollect ==
    \/ (Collect_SkipRouting /\ UNCHANGED OtherThanCollect)
    \/ (Collect_SkipNotReal /\ UNCHANGED OtherThanCollect)
    \/ (Collect_CapBreak /\ UNCHANGED OtherThanCollect)
    \/ (Collect_SkipNoDate /\ UNCHANGED OtherThanCollect)
    \/ (Collect_SkipOtherDate /\ UNCHANGED OtherThanCollect)
    \/ (Collect_Failed /\ UNCHANGED OtherThanCollect)
    \/ (Collect_StoreRow /\ UNCHANGED OtherThanCollect)
    \/ (Collect_Return /\ UNCHANGED OtherThanCollect)

SpecCollect == InitCollect /\ [][NextCollect]_vars

----------------------------------------------------------------------------
(* SpecMain: main's loop over the regions of the run.  Each call of         *)
(* collect_for_region is followed through its counting only: the links of  *)
(* the region that pass the routing and real-URL tests (run.ahead of them   *)
(* are still ahead in the list), the count of the call, the cap test.  A   *)
(* tournament is processed when the loop body gets past the cap test, which *)
(* is when pages are fetched for it; run.processed counts these over the   *)
(* whole run.                                                              *)

InitMain ==
    /\ IdleBracket
    /\ IdleFetch
    /\ IdleCrawl
    /\ IdleCollect
    /\ IdleDate
    /\ \E n \in 1..MaxRegions, cap \in 0..MaxCap :
        run = [NoRun EXCEPT !.regions = n, !.max_events = cap, !.pc = "main"]

\* for region, season_url in regions: collect_for_region(...) is entered,
\* count = 0, and the crawl hands over its links
Main_CallCollect ==
    /\ run.pc = "main"
    /\ run.region < run.regions
    /\ \E n \in 0..MaxLinks :
        run' = [run EXCEPT !.region = @ + 1, !.count = 0, !.ahead = n, !.pc = "loop"]

\* the next tournament link: the cap test lets it through, count += 1, and
\* its pages are fetched
Main_Process ==
    /\ run.pc = "loop"
    /\ run.ahead > 0
    /\ ~(run.max_events # 0 /\ run.count >= run.max_events)
    /\ run' = [run EXCEPT !.count = @ + 1, !.processed = @ + 1, !.ahead = @ - 1]

\* DA_MAX_EVENTS and count >= DA_MAX_EVENTS: break, the call returns
Main_CapBreak ==
    /\ run.pc = "loop"
    /\ run.ahead > 0
    /\ run.max_events # 0 /\ run.count >= run.max_events
    /\ run' = [run EXCEPT !.pc = "main"]

\* the links of the region are exhausted: the call returns
Main_Return ==
    /\ run.pc = "loop"
    /\ run.ahead = 0
    /\ run' = [run EXCEPT !.pc = "main"]

\* the loop over the regions is exhausted
Main_AllRegionsDone ==
    /\ run.pc = "main"
    /\ run.region = run.regions
    /\ run' = [run EXCEPT !.pc = "done"]

OtherThanMain == <<bracketVars, fetchVars, crawlVars, collectVars, soup, event_date>>

NextMain ==
    \/ (Main_CallCollect /\ UNCHANGED OtherThanMain)
    \/ (Main_Process /\ UNCHANGED OtherThanMain)
    \/ (Main_CapBreak /\ UNCHANGED OtherThanMain)
    \/ (Main_Return /\ UNCHANGED OtherThanMain)
    \/ (Main_AllRegionsDone /\ UNCHANGED OtherThanMain)

SpecMain == InitMain /\ [][NextMain]_vars

----------------------------------------------------------------------------
(* SpecDate: parse_tournament_date applied once to an arbitrary page       *)

\* the pages: icon spans drawn from a year, a month name in two spellings
\* and two day numbers; body phrases "Sun 07 Dec 2025", "Sat 32 DEC 2025",
\* "31 Feb 2025", "07 Sept 2025", "December 06 2025", "2025-12-07" and
\* "2025/13/07"
InitDate ==
    /\ IdleBracket
    /\ IdleFetch
    /\ IdleCrawl
    /\ IdleCollect
    /\ IdleMain
    /\ LET Tokens == {"2025", "Dec", "dec", "07", "31"}
           Phrases == {<<"Sun", "07", "Dec", "2025">>, <<"Sat", "32", "DEC", "2025">>,
                       <<"31", "Feb", "2025">>, <<"07", "Sept", "2025">>,
                       <<"December", "06", "2025">>,
                       <<"2025-12-07">>, <<"2025/13/07">>}
       IN  \E np \in 0..MaxParts, nt \in 0..MaxPhrases :
            \E p \in [1..np -> Tokens], t \in [1..nt -> Phrases] :
                soup = [parts |-> p, text |-> t]
    /\ event_date = [status |-> "none", date |-> None]

\* the call returns a date or None
ParseTournamentDate ==
    /\ event_date.status = "none"
    /\ event_date' = [status |-> "returned", date |-> parse_tournament_date(soup)]
    /\ UNCHANGED <<soup, bracketVars, fetchVars, crawlVars, collectVars, run>>

SpecDate == InitDate /\ [][ParseTournamentDate]_vars

----------------------------------------------------------------------------
(* Properties of parse_bracket                                             *)

Returned == bres.status = "ok"

NamesOf(r) ==
    {r.winner.player, r.runner_up.player}
        \cup {r.semi_finalists[j].player : j \in DOMAIN r.semi_finalists}
        \cup {r.quarter_finalists[j].player : j \in DOMAIN r.quarter_finalists}

HasHeading(d, terms) ==
    \E i \in DOMAIN d.norm : d.norm[i].kind = "head" /\ d.norm[i].term \in Range(terms)

RowsAfter(d, i) == {j \in DOMAIN d.norm : j > i /\ d.norm[j].kind = "pair"}

\* C1: whenever parse_bracket returns, the winner is the side of the Final
\* pair with the strictly greater score and the runner-up is the other side.
C1_WinnerStrictlyHigher ==
    Returned =>
        LET p == bres.final_pairs[1]
        IN  \/ p.x > p.y /\ bres.winner = p.a /\ bres.runner_up = p.b
            \/ p.y > p.x /\ bres.winner = p.b /\ bres.runner_up = p.a

\* C2: a scored row with two equal scores is discarded in every section: its
\* two players appear nowhere in winner, runner_up, semi_finalists or
\* quarter_finalists.
C2_EqualScoresDiscarded ==
    Returned =>
        \A i \in DOMAIN doc.norm :
            (doc.norm[i].kind = "pair" /\ doc.norm[i].s1 = doc.norm[i].s2)
                => {doc.norm[i].left, doc.norm[i].right} \cap NamesOf(bres) = {}

AdvancingRecorded(pairs, names) ==
    \A j \in DOMAIN pairs :
        /\ pairs[j].x > pairs[j].y => names[j] = pairs[j].a
        /\ pairs[j].y > pairs[j].x => names[j] = pairs[j].b

EliminatedRecorded(pairs, names) ==
    /\ DOMAIN names = DOMAIN pairs
    /\ \A j \in DOMAIN pairs :
        \/ pairs[j].x < pairs[j].y /\ names[j] = pairs[j].a
        \/ pairs[j].y <= pairs[j].x /\ names[j] = pairs[j].b

\* C3 as stated: the name recorded for every Semi-Final and Quarter-Final
\* pair that has a strictly higher side is that side, the advancing player.
C3_AdvancingPlayerRecorded ==
    Returned =>
        /\ AdvancingRecorded(bres.semi_pairs, bres.semi_finalists)
        /\ AdvancingRecorded(bres.quarter_pairs, bres.quarter_finalists)

\* C3 (amended): the name recorded for every Semi-Final and Quarter-Final
\* pair is the eliminated side - the left side when its score is strictly
\* lower, otherwise the right side, whose score is then lower or equal; the
\* side with the strictly higher score is never the one recorded.
C3_EliminatedPlayerRecorded ==
    Returned =>
        /\ EliminatedRecorded(bres.semi_pairs, bres.semi_finalists)
        /\ EliminatedRecorded(bres.quarter_pairs, bres.quarter_finalists)

\* a Semi-Final section whose row the left player lost, and a Quarter-Final
\* section whose row the right player lost
C3_Witness ==
    /\ Returned
    /\ HasHeading(doc, SemiTerms)
    /\ HasHeading(doc, QuarterTerms)
    /\ \E j \in DOMAIN bres.semi_pairs :
        /\ bres.semi_pairs[j].x < bres.semi_pairs[j].y
        /\ bres.semi_finalists[j] = bres.semi_pairs[j].a
    /\ \E j \in DOMAIN bres.quarter_pairs :
        /\ bres.quarter_pairs[j].x > bres.quarter_pairs[j].y
        /\ bres.quarter_finalists[j] = bres.quarter_pairs[j].b

\* a document whose only heading is "Final", followed by exactly one scored
\* row, and with no scored row in front of it
FinalOnly(d) ==
    /\ ~HasHeading(d, SemiTerms)
    /\ ~HasHeading(d, QuarterTerms)
    /\ \E i \in DOMAIN d.norm :
        /\ d.norm[i].kind = "head"
        /\ d.norm[i].term = "Final"
        /\ Cardinality(RowsAfter(d, i)) = 1
        /\ Cardinality(RowsAfter(d, 0)) = 1

\* C4: for a document with a Final section of one scored row and no
\* Semi-Final and no Quarter-Final heading, parse_bracket returns the two
\* players of that row as winner and runner-up, with semi_finalists = [] and
\* quarter_finalists = [].
C4_MissingSectionsEmpty ==
    (FinalOnly(doc) /\ bres.status # "none") =>
        /\ Returned
        /\ \E i \in DOMAIN doc.norm :
            /\ doc.norm[i].kind = "pair"
            /\ {bres.winner.player, bres.runner_up.player} = {doc.norm[i].left, doc.norm[i].right}
        /\ bres.semi_finalists = <<>>
        /\ bres.quarter_finalists = <<>>

----------------------------------------------------------------------------
(* Properties of the fetch functions                                       *)

Sent(target) == {k \in DOMAIN freqs : freqs[k].to = target}

\* C7: with force-mirror off, one get_soup call sends at most 2 origin
\* requests followed by at most 1 mirror request; each request after the
\* first follows a failed one, the mirror request follows two failed origin
\* requests, a successful request ends the call with its document, and the
\* call raises only when the mirror request itself failed.
C7_GetSoupRequestOrder ==
    (fcall = "get_soup" /\ ~force) =>
        /\ Cardinality(Sent("origin")) <= 2
        /\ Cardinality(Sent("mirror")) <= 1
        /\ \A k \in DOMAIN freqs : freqs[k].to = (IF k <= 2 THEN "origin" ELSE "mirror")
        /\ \A k \in DOMAIN freqs : k > 1 => freqs[k - 1].outcome \in Failures
        /\ \A k \in DOMAIN freqs :
            freqs[k].outcome = "ok" => (k = Len(freqs) /\ fpc \in {"done", "idle"} /\ fres = "doc")
        /\ fres = "doc" => (freqs # <<>> /\ freqs[Len(freqs)].outcome = "ok")
        /\ fres = "raise" =>
            /\ Len(freqs) = 3
            /\ freqs[3].to = "mirror"
            /\ freqs[3].outcome \in Failures
        /\ (fpc \in {"done", "idle"}) => fres \in {"doc", "raise"}

\* both origin attempts failed, the mirror failed too, and the call raised
C7_Witness ==
    /\ fcall = "get_soup"
    /\ ~force
    /\ fpc = "done"
    /\ fres = "raise"
    /\ Len(freqs) = 3
    /\ freqs[1].to = "origin"
    /\ freqs[2].to = "origin"
    /\ freqs[3].to = "mirror"

\* C8: while DA_FORCE_MIRROR is on, no request goes to the origin site,
\* whichever fetch function sends it.
C8_ForceMirrorNoOrigin ==
    force => Sent("origin") = {}

----------------------------------------------------------------------------
(* Properties of collect_for_region                                        *)

TierTable(e) ==
    IF e <= 8 THEN <<"Bronze", 8, 4, 2, 0>>
    ELSE IF e <= 16 THEN <<"Silver", 16, 8, 4, 2>>
    ELSE <<"Gold", 32, 16, 8, 4>>

\* C5: every EventResult of collect_for_region has the tier of its entrants
\* (Bronze up to 8, Silver 9 to 16, Gold from 17) and the four points values
\* of that tier's row of the table.
C5_TierAndPointsFromEntrants ==
    \A k \in DOMAIN rows :
        <<rows[k].tier, rows[k].points_winner, rows[k].points_runner_up,
          rows[k].points_semis, rows[k].points_quarters>> = TierTable(rows[k].entrants)

\* rows of all three tiers, on both sides of each limit
C5_Witness ==
    /\ \E k \in DOMAIN rows : rows[k].entrants = 8 /\ rows[k].tier = "Bronze"
    /\ \E k \in DOMAIN rows : rows[k].entrants = 9 /\ rows[k].tier = "Silver"

C5_WitnessGold ==
    /\ \E k \in DOMAIN rows : rows[k].entrants = 16 /\ rows[k].tier = "Silver"
    /\ \E k \in DOMAIN rows : rows[k].entrants = 17 /\ rows[k].tier = "Gold"

StoredRow == rows[Len(rows)]

\* C6: the entrants recorded in a row is the count_entrants result when that
\* is greater than 0, and otherwise 8 if a quarter-finalist was recovered,
\* else 4 if a semi-finalist was recovered, else 2.
C6_RosterCountBeforeEstimate ==
    last.path = "row" =>
        StoredRow.entrants =
            IF last.counted > 0 THEN last.counted
            ELSE IF StoredRow.quarter_finalists # <<>> THEN 8
            ELSE IF StoredRow.semi_finalists # <<>> THEN 4
            ELSE 2

\* a roster of 3 wins over a bracket with quarter-finalists
C6_Witness ==
    /\ last.path = "row"
    /\ last.counted = 3
    /\ StoredRow.quarter_finalists # <<>>
    /\ StoredRow.entrants = 3

----------------------------------------------------------------------------
(* Properties of extract_event_links_for_season                            *)

Fetched(k) == pagelog[k]

Productive(k) == Fetched(k).result = "doc" /\ Fetched(k).added > 0

\* C9: the crawl fetches pages 1, 2, 3, ... in order, page N+1 only after
\* page N was fetched, added a URL, and N < 10; so at most 10 pages are
\* fetched; the crawl is about to fetch again only when the last page
\* fetched added a URL and was not page 10, and it has returned only after a
\* page that failed, added nothing, or was page 10.
C9_PaginationStops ==
    /\ Len(pagelog) <= 10
    /\ \A k \in DOMAIN pagelog : Fetched(k).page = k
    /\ \A k \in DOMAIN pagelog : k < Len(pagelog) => (Productive(k) /\ k < 10)
    /\ cpc = "loop" =>
        /\ page = Len(pagelog) + 1
        /\ page <= 10
        /\ pagelog # <<>> => Productive(Len(pagelog))
    /\ cpc = "done" => (pagelog # <<>> /\ (~Productive(Len(pagelog)) \/ Len(pagelog) = 10))

\* ten pages fetched, each adding a URL
C9_Witness ==
    /\ cpc = "done"
    /\ Len(pagelog) = 10
    /\ Productive(10)

\* a first page with new URLs, a second page with none: two fetches
C9_WitnessScenario ==
    /\ cpc = "done"
    /\ Len(pagelog) = 2
    /\ Fetched(1).added = MaxItems
    /\ Fetched(2).result = "doc"
    /\ Fetched(2).added = 0
    /\ Len(out) = MaxItems

\* where a URL is first found on a page: the first pass that finds it and
\* the first item in which that pass finds it
Finds(pg, u) == {<<p, i>> : p \in Passes, i \in DOMAIN pg} \cap
                {f \in Passes \X DOMAIN pg : Found(f[1], pg[f[2]]) = u}

Earlier(f, g) == f[1] < g[1] \/ (f[1] = g[1] /\ f[2] < g[2])

FirstFind(pg, u) == CHOOSE f \in Finds(pg, u) : \A g \in Finds(pg, u) : f = g \/ Earlier(f, g)

FoundOn(pg) == {Found(p, pg[i]) : p \in Passes, i \in DOMAIN pg} \ {NoUrl}

OldPart == SubSeq(out, 1, before)

NewPart == SubSeq(out, before + 1, Len(out))

C10_State ==
    /\ NoDup(out)
    /\ Range(out) = seen
    /\ before <= Len(out)
    /\ cpc = "tally" =>
        /\ Range(NewPart) = FoundOn(content) \ Range(OldPart)
        /\ \A i, j \in DOMAIN NewPart :
            i < j => Earlier(FirstFind(content, NewPart[i]), FirstFind(content, NewPart[j]))

C10_Step == SubSeq(out', 1, Len(out)) = out /\ Len(out') >= Len(out)

\* C10: out never holds a URL twice and holds exactly the URLs of seen; the
\* URLs a page adds are the ones found on it that were not in out before,
\* in the order details-label pass, any-anchor pass, raw-markup passes and,
\* within a pass, document order; and a step of the crawl only appends to
\* out, so earlier entries are never moved or repeated.
C10_FirstSeenOrder == []C10_State /\ [][C10_Step]_vars

\* a page whose second item is found by the first pass and whose first item
\* only by a later pass, and a URL of an earlier page met again
C10_Witness ==
    /\ cpc = "tally"
    /\ Len(pagelog) >= 2
    /\ Len(NewPart) = 2
    /\ FirstFind(content, NewPart[1])[2] > FirstFind(content, NewPart[2])[2]
    /\ FoundOn(content) \cap Range(OldPart) # {}

----------------------------------------------------------------------------
(* Failures inside extract_event_links_for_season                          *)

FetchFailedLast == pagelog # <<>> /\ pagelog[Len(pagelog)].result = "raise"

FetchFailureStep == Len(pagelog') = Len(pagelog) + 1 /\ pagelog'[Len(pagelog')].result = "raise"

\* C11: extract_event_links_for_season never leaves by an exception; the
\* step in which the fetch of a page fails leaves out as it was and ends the
\* call, which returns that list.
C11_NeverRaisesKeepsPartial ==
    /\ [](cpc # "raised")
    /\ [](FetchFailedLast => cpc = "done")
    /\ [][FetchFailureStep => (out' = out /\ cpc' = "done")]_vars

----------------------------------------------------------------------------
(* One canonical form per tournament                                       *)

Canonical(u) == u.scheme = "https" /\ u.www /\ HasTournaments(u) /\ u.tail = ""

\* C12: every link that the season crawler returns has the shape
\* https://www.dartsatlas.com/tournaments/<id> with nothing after the id,
\* and no two returned links refer to the same tournament id, whatever the
\* formats in which the listing pages name that tournament
C12_OneCanonicalEntryPerTournament ==
    /\ \A k \in DOMAIN out : Canonical(out[k])
    /\ \A j, k \in DOMAIN out : out[j].id = out[k].id => j = k

----------------------------------------------------------------------------
(* Rows only for the target date                                           *)

\* the pages of the tournament gave the target date: the home page did, or
\* the home page gave no date and the results page gave the target date
TargetDateRead(dr) ==
    \/ dr.home = TargetDate
    \/ dr.home \in {"raise", "none"} /\ dr.results = TargetDate

\* C13: every row of collect_for_region carries the target date, and a row
\* is appended only by a pass of the loop whose date, read from the home
\* page or else from the results page, is the target date; a pass that
\* resolves no date appends nothing and gets no default date
C13_RowsOnlyForTargetDate ==
    /\ [](\A k \in DOMAIN rows : rows[k].date = TargetDate)
    /\ [](last.path = "row" => TargetDateRead(last.dates))
    /\ [][rows' # rows =>
            /\ last'.path = "row"
            /\ TargetDateRead(last'.dates)
            /\ rows' = Append(rows, rows'[Len(rows')])]_vars

\* a row stored for a tournament whose home page failed and whose results
\* page gave the target date, after another tournament was passed over
C13_Witness ==
    /\ last.path = "row"
    /\ last.dates = [home |-> "raise", results |-> TargetDate]
    /\ count = 2
    /\ Len(rows) = 1
    /\ rows[1].date = TargetDate

----------------------------------------------------------------------------
(* Failure of one tournament                                               *)

\* C14: when the processing of one tournament fails at the per-tournament
\* handler (the results page cannot be fetched, or no Final is found), no
\* row is stored for it, the rows collected so far stay as they are, the
\* loop goes on with the next link of the list, and collect_for_region
\* does not end because of it
C14_FailureIsolated ==
    /\ [](\A k \in DOMAIN rows : last.path = "failed" => rows[k].event_url # last.link)
    /\ [][last'.path = "failed" /\ last' # last =>
            /\ rows' = rows
            /\ colpc' = "loop"
            /\ idx' = idx + 1
            /\ links' = links]_vars

\* a tournament fails after a row was stored for an earlier one, and the
\* loop is still running
C14_Witness ==
    /\ last.path = "failed"
    /\ Len(rows) = 1
    /\ count = 2
    /\ colpc = "loop"
    /\ idx = Len(links) + 1

----------------------------------------------------------------------------
(* The roster count                                                        *)

\* C15: count_entrants returns without raising, whatever the two roster
\* pages do, and its result is at least 0: the groups page's count when
\* that is greater than 0, with the players page left unread; otherwise,
\* the groups page having failed or counted 0, the players page's count
\* when that is greater than 0; and 0 when neither page gives a positive
\* count
C15_CountEntrantsTotal ==
    last.path = "row" =>
        LET g == last.roster.groups
            p == last.roster.players
        IN  /\ last.counted \in Nat
            /\ g.state # "unread"
            /\ (g.state = "ok" /\ g.n > 0) => (last.counted = g.n /\ p.state = "unread")
            /\ p.state # "unread" => (g.state = "raise" \/ g.n = 0)
            /\ (~(g.state = "ok" /\ g.n > 0) /\ p.state = "ok" /\ p.n > 0)
                    => last.counted = p.n
            /\ (~(g.state = "ok" /\ g.n > 0) /\ ~(p.state = "ok" /\ p.n > 0))
                    => last.counted = 0

\* the groups page cannot be fetched and the players page lists 5 players
C15_Witness ==
    /\ last.path = "row"
    /\ last.roster.groups.state = "raise"
    /\ last.roster.players = [state |-> "ok", n |-> 5]
    /\ last.counted = 5

\* neither page can be fetched: the count is 0 and the row is still stored
C15_WitnessBothFail ==
    /\ last.path = "row"
    /\ last.roster.groups.state = "raise"
    /\ last.roster.players.state = "raise"
    /\ last.counted = 0

----------------------------------------------------------------------------
(* The delay between tournaments                                           *)

\* pages of the tournament of the last pass were fetched
FetchedPages == last.path \in {"no date", "other date", "failed", "row"}

\* C18: whenever pages were fetched for one tournament and the loop is
\* about to fetch pages for the next one, time.sleep(DA_SLEEP) was reached
\* in between, whatever path the earlier pass took through the loop body
C18_DelayOnEveryPath ==
    (FetchedPages /\ Processable /\ ~CapReached) => last.slept

----------------------------------------------------------------------------
(* The cap on tournaments processed                                        *)

\* C19: with DA_MAX_EVENTS = N > 0, the number of tournaments processed in
\* one run, summed over all the regions of the run, is at most N
C19_CapPerRun ==
    run.max_events > 0 => run.processed <= run.max_events

----------------------------------------------------------------------------
(* clean_person_name applied twice                                         *)

\* the names of a result, each as clean_person_name returned it
CleanedNames(r) ==
    {r.winner, r.runner_up}
        \cup Range(r.semi_finalists) \cup Range(r.quarter_finalists)

\* C17: clean_person_name is idempotent: applied to a name that it has
\* already cleaned, it returns that name unchanged
C17_CleanIdempotent ==
    Returned => \A n \in CleanedNames(bres) : clean_person_name(n) = n

----------------------------------------------------------------------------
(* Properties of parse_tournament_date                                     *)

DateReturned == event_date.status = "returned"

\* a date of the proleptic Gregorian calendar, years 1 to 9999
IsCalendarDate(dt) ==
    /\ dt.y \in 1..9999
    /\ dt.m \in 1..12
    /\ dt.d >= 1
    /\ dt.d <= <<31, 28, 31, 30, 31, 30, 31, 31, 30, 31, 30, 31>>[dt.m]
                + (IF dt.m = 2 /\ dt.y % 4 = 0 /\ (dt.y % 100 # 0 \/ dt.y % 400 = 0)
                   THEN 1 ELSE 0)

\* C16: parse_tournament_date returns, for every page, either None or a
\* valid calendar date; a candidate with an unknown month name or with a
\* month or day out of range is never what it returns
C16_NoneOrCalendarDate ==
    DateReturned => (event_date.date = None \/ IsCalendarDate(event_date.date))

\* the icon names its month "dec" and the first date phrase of the text is
\* 31 Feb 2025: both are passed over and the ISO date further on is returned
C16_Witness ==
    /\ DateReturned
    /\ soup = [parts |-> <<"2025", "dec", "07">>,
               text |-> <<(<<"31", "Feb", "2025">>), (<<"2025-12-07">>)>>]
    /\ event_date.date = [y |-> 2025, m |-> 12, d |-> 7]

\* the outcomes of the seven strategies in their order: the icon's first
\* three parts read as (year, month, day), as (day, month, year), as
\* (month, day, year), then the four text patterns
Strategies ==
    LET p == soup.parts
        segs == <<p>> \o soup.text
    IN  <<IF Len(p) >= 3 THEN try_build(p[1], p[2], p[3]) ELSE None,
          IF Len(p) >= 3 THEN try_build(p[3], p[2], p[1]) ELSE None,
          IF Len(p) >= 3 THEN try_build(p[3], p[1], p[2]) ELSE None,
          pattern_date(1, segs), pattern_date(2, segs),
          pattern_date(3, segs), pattern_date(4, segs)>>

\* C20: parse_tournament_date returns the outcome of the first strategy, in
\* the fixed order, that yields a date, and None exactly when none of them
\* does; the icon parts 2025, Dec, 07 give 2025-12-07
C20_FirstStrategyWins ==
    DateReturned =>
        /\ LET st == Strategies
           IN  \/ /\ \A k \in DOMAIN st : st[k] = None
                  /\ event_date.date = None
               \/ \E k \in DOMAIN st :
                    /\ st[k] # None
                    /\ \A j \in 1..(k - 1) : st[j] = None
                    /\ event_date.date = st[k]
        /\ (Len(soup.parts) >= 3 /\ SubSeq(soup.parts, 1, 3) = <<"2025", "Dec", "07">>)
                => event_date.date = [y |-> 2025, m |-> 12, d |-> 7]

\* the icon reads 07 Dec 31, which is a date both as (year, month, day) and
\* as (day, month, year), and the text holds another date: the first
\* reading is returned
C20_Witness ==
    /\ DateReturned
    /\ soup = [parts |-> <<"07", "Dec", "31">>, text |-> <<(<<"December", "06", "2025">>)>>]
    /\ Strategies[2] = [y |-> 31, m |-> 12, d |-> 7]
    /\ event_date.date = [y |-> 7, m |-> 12, d |-> 31]

\* no icon; the text holds 2025-12-07 and, after it, December 06 2025: the
\* third text pattern is tried before the fourth
C20_WitnessTextOrder ==
    /\ DateReturned
    /\ soup = [parts |-> <<>>, text |-> <<(<<"2025-12-07">>), (<<"December", "06", "2025">>)>>]
    /\ event_date.date = [y |-> 2025, m |-> 12, d |-> 6]

----------------------------------------------------------------------------
(* The window of the Final section                                         *)

\* the heading "Final" stands at i with a scored row right under it, and a
\* Quarter-Final heading and a Semi-Final heading stand before it
FinalListedLast(d, i) ==
    /\ i \in DOMAIN d.norm
    /\ d.norm[i].kind = "head" /\ d.norm[i].term = "Final"
    /\ i + 1 \in DOMAIN d.norm /\ d.norm[i + 1].kind = "pair"
    /\ \E q \in 1..(i - 1) : d.norm[q].kind = "head" /\ d.norm[q].term \in Range(QuarterTerms)
    /\ \E h \in 1..(i - 1) : d.norm[h].kind = "head" /\ d.norm[h].term \in Range(SemiTerms)
    /\ \A j \in 1..(i - 1) : ~(d.norm[j].kind = "head" /\ d.norm[j].term = "Final")

\* C21: when the document lists Quarter-Final and Semi-Final sections
\* before the Final section, the Final window starts at the standalone
\* Final heading, so parse_bracket returns as winner and runner-up the two
\* players of the match listed under that heading
C21_FinalWindowAtOwnHeading ==
    \A i \in DOMAIN doc.norm :
        (FinalListedLast(doc, i) /\ bres.status # "none") =>
            /\ Returned
            /\ {bres.winner.player, bres.runner_up.player}
                    = {doc.norm[i + 1].left, doc.norm[i + 1].right}

----------------------------------------------------------------------------
(* Tier of a row whose entrants were estimated                             *)

\* C22: when count_entrants gives 0, the entrants of the row is the
\* estimate 2, 4 or 8, so the row has tier Bronze and the points 8, 4, 2,
\* 0; a row of tier Silver or Gold has a roster count of at least 9
C22_EstimateIsBronze ==
    last.path = "row" =>
        /\ last.counted = 0 =>
                /\ StoredRow.entrants \in {2, 4, 8}
                /\ StoredRow.tier = "Bronze"
                /\ <<StoredRow.points_winner, StoredRow.points_runner_up,
                      StoredRow.points_semis, StoredRow.points_quarters>> = <<8, 4, 2, 0>>
        /\ StoredRow.tier \in {"Silver", "Gold"} =>
                (last.counted >= 9 /\ StoredRow.entrants = last.counted)

\* neither roster page can be fetched and quarter-finalists were
\* recovered: the row has 8 entrants and tier Bronze
C22_Witness ==
    /\ last.path = "row"
    /\ last.roster.groups.state = "raise"
    /\ last.roster.players.state = "raise"
    /\ last.counted = 0
    /\ StoredRow.quarter_finalists # <<>>
    /\ StoredRow.entrants = 8
    /\ StoredRow.tier = "Bronze"

====
